---------------------------- MODULE Spec2Model ----------------------------
(***************************************************************************)
(* A model of package structexp: Parse(s, i) builds one regular expression *)
(* from the tags of a struct's fields, matches it against s and writes the *)
(* named captures into the fields.                                         *)
(*                                                                         *)
(* Go strings are sequences of one-character strings.  Types, struct       *)
(* fields and reflect.Values are records.  One call of Parse is run step   *)
(* by step: Call, TypeCheck, RegexpBase, ListFields, FillRegexp, Match,    *)
(* SetFieldStep (one loop iteration), Return.                              *)
(***************************************************************************)
EXTENDS Naturals, Integers, Sequences, FiniteSets, TLC

(***************************************************************************)
(* Bounds of the model.                                                    *)
(***************************************************************************)
\* Input texts are all strings over Alphabet of at most MaxLen characters,
\* together with the longer texts of ExtraInputs.
MaxLen == 2

-----------------------------------------------------------------------------
(***************************************************************************)
(* strings                                                                 *)
(***************************************************************************)
Digits == {"0", "1", "2", "3", "4", "5", "6", "7", "8", "9"}

Lower == {"a", "b", "c", "d", "e", "f", "g", "h", "i", "j", "k", "l", "m",
          "n", "o", "p", "q", "r", "s", "t", "u", "v", "w", "x", "y", "z"}

Upper == {"A", "B", "C", "D", "E", "F", "G", "H", "I", "J", "K", "L", "M",
          "N", "O", "P", "Q", "R", "S", "T", "U", "V", "W", "X", "Y", "Z"}

\* strings.Index(s, sub): the 1-based place of the first occurrence of sub in
\* s, 0 when there is none (Go: 0-based, -1).
Index(s, sub) ==
    LET hits == {i \in 1..(Len(s) + 1) :
                    /\ i + Len(sub) - 1 <= Len(s)
                    /\ SubSeq(s, i, i + Len(sub) - 1) = sub}
    IN  IF hits = {} THEN 0 ELSE CHOOSE i \in hits : \A j \in hits : i <= j

\* strings.Replace(s, old, new, 1): only the first occurrence is replaced.
ReplaceFirst(s, old, new) ==
    LET i == Index(s, old)
    IN  IF i = 0 THEN s
        ELSE SubSeq(s, 1, i - 1) \o new \o SubSeq(s, i + Len(old), Len(s))

\* strings.ReplaceAll(s, old, "") for a one-character old.
RECURSIVE RemoveAll(_, _)
RemoveAll(s, c) ==
    IF s = <<>> THEN <<>>
    ELSE IF Head(s) = c THEN RemoveAll(Tail(s), c)
    ELSE <<Head(s)>> \o RemoveAll(Tail(s), c)

-----------------------------------------------------------------------------
(***************************************************************************)
(* errors                                                                  *)
(***************************************************************************)
\* An error value: its Go type and what it carries.
Err(type, detail) == [type |-> type, detail |-> detail]

Nil == Err("nil", "")

\* A run-time panic ends the call; it is no error value Parse returns.
Panic(detail) == Err("panic", detail)

-----------------------------------------------------------------------------
(***************************************************************************)
(* strconv                                                                 *)
(***************************************************************************)
\* strconv.ParseBool
ParseBool(str) ==
    IF str \in {<<"1">>, <<"t">>, <<"T">>, <<"T", "R", "U", "E">>, <<"t", "r", "u", "e">>, <<"T", "r", "u", "e">>}
    THEN [err |-> Nil, val |-> TRUE]
    ELSE IF str \in {<<"0">>, <<"f">>, <<"F">>, <<"F", "A", "L", "S", "E">>, <<"f", "a", "l", "s", "e">>, <<"F", "a", "l", "s", "e">>}
    THEN [err |-> Nil, val |-> FALSE]
    ELSE [err |-> Err("NumError", "ParseBool: invalid syntax"), val |-> FALSE]

DigitVal(c) ==
    CASE c = "0" -> 0 [] c = "1" -> 1 [] c = "2" -> 2 [] c = "3" -> 3
      [] c = "4" -> 4 [] c = "5" -> 5 [] c = "6" -> 6 [] c = "7" -> 7
      [] c = "8" -> 8 [] c = "9" -> 9

\* A magnitude is a digit string without leading zeros ("0" for zero): the
\* values of a 64-bit int do not fit the model checker's integers.
RECURSIVE Canon(_)
Canon(ds) ==
    IF Len(ds) > 1 /\ Head(ds) = "0" THEN Canon(Tail(ds)) ELSE ds

RECURSIVE LexLeq(_, _)
LexLeq(a, b) ==
    IF a = <<>> THEN TRUE
    ELSE IF DigitVal(Head(a)) < DigitVal(Head(b)) THEN TRUE
    ELSE IF DigitVal(Head(a)) > DigitVal(Head(b)) THEN FALSE
    ELSE LexLeq(Tail(a), Tail(b))

\* a <= b for two magnitudes.
MagLeq(a, b) ==
    \/ Len(a) < Len(b)
    \/ Len(a) = Len(b) /\ LexLeq(a, b)

\* 2^(bitSize-1), the cutoff of strconv.ParseInt, for the two sizes of int.
Cutoff(bitSize) ==
    IF bitSize = 32 THEN <<"2", "1", "4", "7", "4", "8", "3", "6", "4", "8">> ELSE <<"9", "2", "2", "3", "3", "7", "2", "0", "3", "6", "8", "5", "4", "7", "7", "5", "8", "0", "8">>

\* An int value: sign and magnitude.
IntVal(neg, mag) == [neg |-> neg /\ mag # <<"0">>, mag |-> mag]

Zero == IntVal(FALSE, <<"0">>)

\* strconv.ParseInt(str, 10, 0) on a build whose int has bitSize bits.
ParseInt(str, bitSize) ==
    LET signed == str # <<>> /\ Head(str) \in {"+", "-"}
        neg    == str # <<>> /\ Head(str) = "-"
        body   == IF signed THEN Tail(str) ELSE str
        mag    == Canon(body)
    IN  IF body = <<>> \/ \E j \in 1..Len(body) : body[j] \notin Digits
        THEN [err |-> Err("NumError", "ParseInt: invalid syntax"), val |-> Zero]
        ELSE IF \/ ~neg /\ MagLeq(Cutoff(bitSize), mag)
                \/ neg /\ ~MagLeq(mag, Cutoff(bitSize))
        THEN [err |-> Err("NumError", "ParseInt: value out of range"), val |-> Zero]
        ELSE [err |-> Nil, val |-> IntVal(neg, mag)]

-----------------------------------------------------------------------------
(***************************************************************************)
(* Types and struct fields (package reflect's view of them)                *)
(***************************************************************************)
\* A struct field: its identifier, the name of its type, whether it is
\* embedded, and its three tags (Tag.Get gives "" for an absent tag).
Fld(name, typ, embedded, structexp, capName, exp) ==
    [name |-> name, typ |-> typ, embedded |-> embedded,
     tag |-> [structexp |-> structexp, name |-> capName, exp |-> exp]]

\* The embedded marker field:  StructExp <<"s", "t", "r", "u", "c", "t", "e", "x", "p", ":", """, ".", ".", ".", """>>
Marker(template) == Fld(<<"S", "t", "r", "u", "c", "t", "E", "x", "p">>, "StructExp", TRUE, template, <<>>, <<>>)

\* An untagged field.
Plain(name, typ) == Fld(name, typ, FALSE, <<>>, <<>>, <<>>)

\* A field with a structexp.name tag, and one with a structexp.exp tag too.
Named(name, typ, capName) == Fld(name, typ, FALSE, <<>>, capName, <<>>)

NamedExp(name, typ, capName, exp) == Fld(name, typ, FALSE, <<>>, capName, exp)

\* An embedded field is named after its type.
Embedded(name, typ) == Fld(name, typ, TRUE, <<>>, <<>>, <<>>)

\* A type: its kind, whether its method set (impl) and that of the pointer to
\* it (ptrImpl) hold Parse(string) error, and a struct's fields.
Basic(kind) == [kind |-> kind, impl |-> FALSE, ptrImpl |-> FALSE, fields |-> <<>>]

\* A defined type whose Parse method has a pointer receiver.
Parsable(kind) == [kind |-> kind, impl |-> FALSE, ptrImpl |-> TRUE, fields |-> <<>>]

\* The pointer to such a type, and the interface ParsableField itself: the
\* type satisfies the interface, the pointer to it has no methods.
Satisfying(kind) == [kind |-> kind, impl |-> TRUE, ptrImpl |-> FALSE, fields |-> <<>>]

Struct(fields) == [kind |-> "struct", impl |-> FALSE, ptrImpl |-> FALSE, fields |-> fields]

\* The test file's struct types.
TestTypes ==
    [Bool |-> Struct(<<Marker(<<"{", "{", "t", "e", "s", "t", "}", "}">>), Named(<<"V", "a", "l", "u", "e">>, "bool", <<"t", "e", "s", "t">>)>>),
     Int |-> Struct(<<Marker(<<"{", "{", "t", "e", "s", "t", "}", "}">>), Named(<<"V", "a", "l", "u", "e">>, "int", <<"t", "e", "s", "t">>)>>),
     String |-> Struct(<<Marker(<<"{", "{", "t", "e", "s", "t", "}", "}">>), Named(<<"V", "a", "l", "u", "e">>, "string", <<"t", "e", "s", "t">>)>>),
     ParsableStruct |->
        Struct(<<Marker(<<"{", "{", "t", "e", "s", "t", "}", "}">>),
                 NamedExp(<<"V", "a", "l", "u", "e">>, "ParsableBool", <<"t", "e", "s", "t">>, <<"a", "|", "b">>)>>),
     NestedStruct |-> Struct(<<Named(<<"V", "a", "l", "u", "e">>, "string", <<"t", "e", "s", "t">>)>>),
     ParentNestedStruct |->
        Struct(<<Marker(<<"{", "{", "t", "e", "s", "t", "}", "}">>), Plain(<<"N", "e", "s", "t", "e", "d">>, "NestedStruct")>>),
     EmbeddedStruct |-> Struct(<<Named(<<"V", "a", "l", "u", "e">>, "string", <<"t", "e", "s", "t">>)>>),
     ParentEmbeddedStruct |->
        Struct(<<Marker(<<"{", "{", "t", "e", "s", "t", "}", "}">>), Embedded(<<"E", "m", "b", "e", "d", "d", "e", "d", "S", "t", "r", "u", "c", "t">>, "EmbeddedStruct")>>),
     MissingFieldStruct |-> Struct(<<Named(<<"V", "a", "l", "u", "e">>, "string", <<"t", "e", "s", "t">>)>>)]

\* The README's example.
ExampleTypes ==
    [PhoneNumber |->
        Struct(<<Marker(<<"{", "{", "c", "c", "}", "}", "-", "{", "{", "a", "c", "}", "}", "-", "{", "{", "p", "}", "}", "-", "{", "{", "l", "n", "}", "}">>),
                 Named(<<"C", "o", "u", "n", "t", "r", "y", "C", "o", "d", "e">>, "int", <<"c", "c">>),
                 Named(<<"A", "r", "e", "a", "C", "o", "d", "e">>, "int", <<"a", "c">>),
                 Named(<<"P", "r", "e", "f", "i", "x">>, "int", <<"p">>),
                 Named(<<"L", "i", "n", "e", "N", "u", "m", "b", "e", "r">>, "int", <<"l", "n">>)>>)]

\* Further struct types a caller can declare.
CallerTypes ==
    [\* untagged fields: the identifier is the capture-group name
     Untagged |-> Struct(<<Marker(<<"{", "{", "B", "}", "}", "{", "{", "S", "}", "}">>), Plain(<<"B">>, "bool"), Plain(<<"S">>, "string")>>),
     \* a field of the interface type, as in the package comment's Example,
     \* and fields of kinds Parse does not accept
     Mixed |->
        Struct(<<Marker(<<"{", "{", "n", "}", "}", "-", "{", "{", "P", "}", "}">>),
                 Plain(<<"F">>, "float64"),
                 Named(<<"N">>, "int", <<"n">>),
                 Plain(<<"U">>, "uint"),
                 NamedExp(<<"P">>, "ParsableField", <<"P">>, <<"a", "|", "b">>),
                 NamedExp(<<"Q">>, "*ParsableBool", <<"q">>, <<"a", "|", "b">>),
                 Plain(<<"R">>, "*NestedStruct")>>),
     \* two sibling fields with one capture-group name
     DupOnce |->
        Struct(<<Marker(<<"{", "{", "n", "}", "}">>), Named(<<"A">>, "int", <<"n">>), Named(<<"B">>, "int", <<"n">>)>>),
     DupTwice |->
        Struct(<<Marker(<<"{", "{", "n", "}", "}", "-", "{", "{", "n", "}", "}">>), Named(<<"A">>, "int", <<"n">>), Named(<<"B">>, "int", <<"n">>)>>),
     \* capture groups in an optional part or in an alternative
     OptInt |->
        Struct(<<Marker(<<"{", "{", "a", "}", "}", "(", "-", "{", "{", "b", "}", "}", ")", "?">>), Named(<<"A">>, "int", <<"a">>), Named(<<"B">>, "int", <<"b">>)>>),
     OptStr |->
        Struct(<<Marker(<<"{", "{", "a", "}", "}", "(", "-", "{", "{", "b", "}", "}", ")", "?">>), Named(<<"A">>, "int", <<"a">>), Named(<<"B">>, "string", <<"b">>)>>),
     OptCustom |->
        Struct(<<Marker(<<"{", "{", "a", "}", "}", "(", "-", "{", "{", "b", "}", "}", ")", "?">>), Named(<<"A">>, "int", <<"a">>),
                 NamedExp(<<"B">>, "ParsableBool", <<"b">>, <<"a", "|", "b">>)>>),
     Alt |->
        Struct(<<Marker(<<"^", "(", "{", "{", "a", "}", "}", "|", "{", "{", "b", "}", "}", ")", "$">>), Named(<<"A">>, "int", <<"a">>), Named(<<"B">>, "bool", <<"b">>)>>),
     \* a field whose placeholder is not in the template
     Absent |->
        Struct(<<Marker(<<"{", "{", "a", "}", "}">>), Named(<<"A">>, "int", <<"a">>), Named(<<"B">>, "string", <<"b">>)>>),
     \* an unexported field between two exported ones
     Hidden |->
        Struct(<<Marker(<<"{", "{", "a", "}", "}", "-", "{", "{", "b", "}", "}", "-", "{", "{", "c", "}", "}">>), Named(<<"A">>, "int", <<"a">>),
                 Plain(<<"b">>, "int"), Named(<<"C">>, "int", <<"c">>)>>),
     \* an unexported field with a custom conversion
     HiddenCustom |->
        Struct(<<Marker(<<"{", "{", "t", "e", "s", "t", "}", "}">>),
                 NamedExp(<<"v", "a", "l", "u", "e">>, "ParsableBool", <<"t", "e", "s", "t">>, <<"a", "|", "b">>)>>),
     \* a custom conversion that can fail, between two ints
     Amount |->
        Struct(<<Marker(<<"{", "{", "a", "}", "}", "-", "{", "{", "n", "}", "}", "-", "{", "{", "c", "}", "}">>), Named(<<"A">>, "int", <<"a">>),
                 NamedExp(<<"N">>, "CommaInt", <<"n">>, <<"[", "[", ":", "d", "i", "g", "i", "t", ":", "]", ",", "]", "+">>),
                 Named(<<"C">>, "int", <<"c">>)>>),
     \* a nested struct between two fields, and its flat counterpart
     ParentMixed |->
        Struct(<<Marker(<<"{", "{", "a", "}", "}", "-", "{", "{", "t", "e", "s", "t", "}", "}", "-", "{", "{", "c", "}", "}">>), Named(<<"A">>, "int", <<"a">>),
                 Plain(<<"N", "e", "s", "t", "e", "d">>, "NestedStruct"), Named(<<"C">>, "bool", <<"c">>)>>),
     \* nesting through an unexported field, and an embedded unexported type
     ParentUnexportedNested |->
        Struct(<<Marker(<<"{", "{", "t", "e", "s", "t", "}", "}">>), Plain(<<"n", "e", "s", "t", "e", "d">>, "NestedStruct")>>),
     embeddedStruct |-> Struct(<<Named(<<"V", "a", "l", "u", "e">>, "string", <<"t", "e", "s", "t">>)>>),
     ParentUnexportedEmbedded |->
        Struct(<<Marker(<<"{", "{", "t", "e", "s", "t", "}", "}">>), Embedded(<<"e", "m", "b", "e", "d", "d", "e", "d", "S", "t", "r", "u", "c", "t">>, "embeddedStruct")>>),
     \* two levels of nesting
     Middle |-> Struct(<<Plain(<<"I", "n", "n", "e", "r">>, "NestedStruct"), Named(<<"N">>, "int", <<"n">>)>>),
     Outer |-> Struct(<<Marker(<<"{", "{", "t", "e", "s", "t", "}", "}", "{", "{", "n", "}", "}">>), Embedded(<<"M", "i", "d", "d", "l", "e">>, "Middle")>>),
     \* the marker promoted from an embedded struct, the marker in a named
     \* nested struct, and two markers
     Base |-> Struct(<<Marker(<<"{", "{", "t", "e", "s", "t", "}", "}">>), Named(<<"V", "a", "l", "u", "e">>, "string", <<"t", "e", "s", "t">>)>>),
     PromotedMarker |-> Struct(<<Embedded(<<"B", "a", "s", "e">>, "Base")>>),
     NestedMarker |-> Struct(<<Plain(<<"I", "n", "n", "e", "r">>, "Base")>>),
     TwoMarkers |->
        Struct(<<Fld(<<"M">>, "StructExp", FALSE, <<"{", "{", "t", "e", "s", "t", "}", "}">>, <<>>, <<>>),
                 Fld(<<"N">>, "StructExp", FALSE, <<"{", "{", "t", "e", "s", "t", "}", "}">>, <<>>, <<>>),
                 Named(<<"V", "a", "l", "u", "e">>, "string", <<"t", "e", "s", "t">>)>>),
     \* a sub-pattern the engine rejects
     BadExp |->
        Struct(<<Marker(<<"{", "{", "a", "}", "}">>), NamedExp(<<"A">>, "string", <<"a">>, <<"(">>)>>)]

\* Types that are not the test's, the example's or a caller's structs.
OtherTypes ==
    [bool |-> Basic("bool"),
     int |-> Basic("int"),
     string |-> Basic("string"),
     float64 |-> Basic("float64"),
     uint |-> Basic("uint"),
     \* type StructExp struct{}
     StructExp |-> Struct(<<>>),
     \* type ParsableBool bool, with func (p *ParsableBool) Parse(string) error
     ParsableBool |-> Parsable("bool"),
     \* the CommaInt of the ParsableField comment
     CommaInt |-> Parsable("int"),
     ParsableField |-> Satisfying("interface"),
     \* the type of the zero reflect.Value
     invalid |-> Basic("invalid")]

PointerTypes ==
    [t \in {"*ParsableBool"} |-> Satisfying("ptr")]
    @@ [t \in {"*NestedStruct", "*Bool", "*int"} |-> Basic("ptr")]

\* The flat counterparts of ParentMixed and Outer: the fields of the nested
\* struct are declared where the nesting field was.  The flat counterpart of
\* the four Parent...Struct types is String.
FlatTypes ==
    [FlatMixed |->
        Struct(<<Marker(<<"{", "{", "a", "}", "}", "-", "{", "{", "t", "e", "s", "t", "}", "}", "-", "{", "{", "c", "}", "}">>), Named(<<"A">>, "int", <<"a">>),
                 Named(<<"V", "a", "l", "u", "e">>, "string", <<"t", "e", "s", "t">>), Named(<<"C">>, "bool", <<"c">>)>>),
     FlatOuter |->
        Struct(<<Marker(<<"{", "{", "t", "e", "s", "t", "}", "}", "{", "{", "n", "}", "}">>), Named(<<"V", "a", "l", "u", "e">>, "string", <<"t", "e", "s", "t">>),
                 Named(<<"N">>, "int", <<"n">>)>>)]

Types == TestTypes @@ ExampleTypes @@ CallerTypes @@ FlatTypes @@ OtherTypes
         @@ PointerTypes

\* The structs that nest a struct, and their flat counterparts.
NestingTypes ==
    {"ParentNestedStruct", "ParentEmbeddedStruct", "ParentMixed", "Outer",
     "ParentUnexportedNested", "ParentUnexportedEmbedded"}

FlatOf(t) ==
    IF t = "ParentMixed" THEN "FlatMixed"
    ELSE IF t = "Outer" THEN "FlatOuter"
    ELSE "String"

\* reflect.Type.Kind
Kind(t) == Types[t].kind

\* field.Type == reflect.TypeOf(StructExp{})
IsStructExp(t) == t = "StructExp"

\* reflect.PtrTo(t).Implements(the type of interface ParsableField)
PtrToImplements(t) == Types[t].ptrImpl

\* reflect's StructField.IsExported: the identifier starts with an upper-case letter.
IsExported(name) == name # <<>> /\ Head(name) \in Upper

-----------------------------------------------------------------------------
(***************************************************************************)
(* reflect.Type.FieldByName and FieldByNameFunc                            *)
(*                                                                         *)
(* A breadth-first search, one depth of embedding at a time: a single      *)
(* match at a depth is the result, several matches at one depth annihilate *)
(* each other, and only embedded structs are descended into.               *)
(***************************************************************************)
\* The fields one level below: those of the embedded structs of a level.
RECURSIVE NextLevel(_)
NextLevel(level) ==
    IF level = <<>> THEN <<>>
    ELSE LET f == Head(level)
         IN  (IF f.embedded /\ Kind(f.typ) = "struct" THEN Types[f.typ].fields ELSE <<>>)
             \o NextLevel(Tail(level))

\* The zero StructField of a failed lookup: its Type is nil.
NoField == [ok |-> FALSE, field |-> Plain(<<>>, "nil")]

\* t.FieldByName(name)
RECURSIVE ScanByName(_, _)
ScanByName(level, name) ==
    LET hits == SelectSeq(level, LAMBDA f : f.name = name)
    IN  IF Len(hits) = 1 THEN [ok |-> TRUE, field |-> hits[1]]
        ELSE IF Len(hits) > 1 \/ NextLevel(level) = <<>> THEN NoField
        ELSE ScanByName(NextLevel(level), name)

FieldByName(t, name) == ScanByName(Types[t].fields, name)

\* The match function regexpBase passes to FieldByNameFunc: the field of t
\* with this name has type StructExp.
MatchStructExp(t, name) == IsStructExp(FieldByName(t, name).field.typ)

\* t.FieldByNameFunc(match) for that match function.
RECURSIVE ScanByFunc(_, _)
ScanByFunc(level, t) ==
    LET hits == SelectSeq(level, LAMBDA f : MatchStructExp(t, f.name))
    IN  IF Len(hits) = 1 THEN [ok |-> TRUE, field |-> hits[1]]
        ELSE IF Len(hits) > 1 \/ NextLevel(level) = <<>> THEN NoField
        ELSE ScanByFunc(NextLevel(level), t)

FieldByNameFunc(t) == ScanByFunc(Types[t].fields, t)

-----------------------------------------------------------------------------
(***************************************************************************)
(* Package regexp, for the syntax the templates and sub-patterns use:      *)
(* literals, ( ), (?P<name> ), |, * + ? (greedy or lazy), ^ $ . and        *)
(* bracket classes of single characters, [:digit:] and [:print:].          *)
(* A { that starts no repetition count is a literal, as is every }.        *)
(***************************************************************************)
Empty == [op |-> "empty"]

Lit(c) == [op |-> "lit", c |-> c]

Class(items) == [op |-> "class", items |-> items]

Cat(subs) == [op |-> "cat", subs |-> subs]

Alt(left, right) == [op |-> "alt", left |-> left, right |-> right]

Rep(op, greedy, sub) == [op |-> op, greedy |-> greedy, sub |-> sub]

Cap(idx, sub) == [op |-> "cap", idx |-> idx, sub |-> sub]

RepOps == {"*", "+", "?"}

WordChars == Digits \cup Lower \cup Upper \cup {"_"}

\* The printable ASCII characters (without the backquote and the double
\* quote, which no text of the model holds).
Printable ==
    Digits \cup Lower \cup Upper \cup
    {" ", "!", "#", "%", "&", "'", "(", ")", "*", "+", ",", "-", ".",
     "/", ":", ";", "<", "=", ">", "?", "@", "[", "]", "^", "_", "{",
     "|", "}", "~", "$"}

\* A parse in progress: the error (if any), the node parsed, the place after
\* it and the names of the capture groups opened so far, by index.
Fail(msg) == [err |-> msg, node |-> Empty, next |-> 0, names |-> <<>>]

Parsed(node, next, names) == [err |-> "", node |-> node, next |-> next, names |-> names]

HasPrefix(p, i, pre) ==
    i + Len(pre) - 1 <= Len(p) /\ SubSeq(p, i, i + Len(pre) - 1) = pre

\* The name of (?P<name>: from place i to the next >.
ParseName(p, i) ==
    LET ends == {j \in i..Len(p) : p[j] = ">"}
        end  == CHOOSE j \in ends : \A k \in ends : j <= k
        name == SubSeq(p, i, end - 1)
    IN  IF ends = {} THEN [ok |-> FALSE, name |-> <<>>, next |-> 0]
        ELSE [ok   |-> name # <<>> /\ \A k \in 1..Len(name) : name[k] \in WordChars,
              name |-> name, next |-> end + 1]

\* The items of a bracket class from place j on, up to its closing ].
RECURSIVE ClassItems(_, _, _)
ClassItems(p, j, acc) ==
    IF j > Len(p) THEN Fail("missing closing ]")
    ELSE IF p[j] = "]" /\ acc # <<>> THEN Parsed(Class(acc), j + 1, <<>>)
    ELSE IF HasPrefix(p, j, <<"[", ":", "d", "i", "g", "i", "t", ":", "]">>)
    THEN ClassItems(p, j + 9, Append(acc, [posix |-> "digit"]))
    ELSE IF HasPrefix(p, j, <<"[", ":", "p", "r", "i", "n", "t", ":", "]">>)
    THEN ClassItems(p, j + 9, Append(acc, [posix |-> "print"]))
    ELSE IF HasPrefix(p, j, <<"[", ":">>) THEN Fail("invalid character class range")
    ELSE IF j + 2 <= Len(p) /\ p[j + 1] = "-" /\ p[j + 2] # "]"
    THEN Fail("character range: outside the modelled syntax")
    ELSE ClassItems(p, j + 1, Append(acc, [char |-> p[j]]))

RECURSIVE ParseAlt(_, _, _)
RECURSIVE ParseCat(_, _, _, _)

\* The group opened before names got its entry, once its inside is parsed.
CloseGroup(p, names, inner) ==
    IF inner.err # "" THEN inner
    ELSE IF inner.next > Len(p) THEN Fail("missing closing )")
    ELSE Parsed(Cap(Len(names) + 1, inner.node), inner.next + 1, inner.names)

\* (?P<name> ... ) with its name read.
NamedGroup(p, names, nm) ==
    IF ~nm.ok THEN Fail("invalid named capture")
    ELSE CloseGroup(p, names, ParseAlt(p, nm.next, Append(names, nm.name)))

\* A bracket class, which opens no group.
Bracket(cls, names) ==
    IF cls.err # "" THEN cls ELSE Parsed(cls.node, cls.next, names)

\* One atom at place i.
ParseAtom(p, i, names) ==
    LET c == p[i]
    IN  IF c = "("
        THEN IF HasPrefix(p, i + 1, <<"?", "P", "<">>) THEN NamedGroup(p, names, ParseName(p, i + 4))
             ELSE IF HasPrefix(p, i + 1, <<"?">>)
             THEN Fail("invalid or unsupported Perl syntax")
             ELSE CloseGroup(p, names, ParseAlt(p, i + 1, Append(names, <<>>)))
        ELSE IF c = "[" THEN Bracket(ClassItems(p, i + 1, <<>>), names)
        ELSE IF c \in RepOps THEN Fail("missing argument to repetition operator")
        ELSE IF c = "^" THEN Parsed([op |-> "bol"], i + 1, names)
        ELSE IF c = "$" THEN Parsed([op |-> "eol"], i + 1, names)
        ELSE IF c = "." THEN Parsed(Class(<<[posix |-> "print"]>>), i + 1, names)
        ELSE IF c = "{" /\ i < Len(p) /\ p[i + 1] \in Digits
        THEN Fail("repetition count: outside the modelled syntax")
        ELSE IF c = "\\" THEN Fail("escape: outside the modelled syntax")
        ELSE Parsed(Lit(c), i + 1, names)

\* An atom a and its repetition operator; a second operator stacked on the
\* first is an error, a ? after the operator makes it lazy.
Repeat(p, a) ==
    LET repeated == a.next <= Len(p) /\ p[a.next] \in RepOps
        lazy == a.next + 1 <= Len(p) /\ p[a.next + 1] = "?"
        after == IF lazy THEN a.next + 2 ELSE a.next + 1
        op == IF p[a.next] = "*" THEN "star"
              ELSE IF p[a.next] = "+" THEN "plus" ELSE "quest"
    IN  IF a.err # "" \/ ~repeated THEN a
        ELSE IF after <= Len(p) /\ p[after] \in RepOps
        THEN Fail("invalid nested repetition operator")
        ELSE Parsed(Rep(op, ~lazy, a.node), after, a.names)

ParsePiece(p, i, names) == Repeat(p, ParseAtom(p, i, names))

\* The concatenation acc continued after one more piece.
CatRest(p, acc, piece) ==
    IF piece.err # "" THEN piece
    ELSE ParseCat(p, piece.next, piece.names, Append(acc, piece.node))

\* A concatenation: pieces up to a |, a ) or the end.
ParseCat(p, i, names, acc) ==
    IF i > Len(p) \/ p[i] \in {"|", ")"} THEN Parsed(Cat(acc), i, names)
    ELSE CatRest(p, acc, ParsePiece(p, i, names))

AltJoin(first, rest) ==
    IF rest.err # "" THEN rest
    ELSE Parsed(Alt(first.node, rest.node), rest.next, rest.names)

AltRest(p, first) ==
    IF first.err # "" THEN first
    ELSE IF first.next <= Len(p) /\ p[first.next] = "|"
    THEN AltJoin(first, ParseAlt(p, first.next + 1, first.names))
    ELSE first

\* An alternation of concatenations.
ParseAlt(p, i, names) == AltRest(p, ParseCat(p, i, names, <<>>))

\* A compiled expression, or the zero value beside the error.
NoRegexp == [node |-> Empty, names |-> <<>>]

\* regexp.Compile
Compile(p) ==
    LET r == ParseAlt(p, 1, <<>>)
    IN  IF r.err # "" THEN [err |-> Err("syntax.Error", r.err), re |-> NoRegexp]
        ELSE IF r.next <= Len(p)
        THEN [err |-> Err("syntax.Error", "unexpected )"), re |-> NoRegexp]
        ELSE [err |-> Nil, re |-> [node |-> r.node, names |-> r.names]]

\* Whether character c is in a bracket class.
InClass(items, c) ==
    \E k \in 1..Len(items) :
        IF "posix" \in DOMAIN items[k]
        THEN \/ items[k].posix = "digit" /\ c \in Digits
             \/ items[k].posix = "print" /\ c \in Printable
        ELSE items[k].char = c

\* A way to match: the place reached (characters consumed from the start of
\* the text) and the span of each capture group, <<-1, -1>> when unset.
Way(pos, caps) == [pos |-> pos, caps |-> caps]

\* Ways(node, s, pos, caps): the ways node matches s from pos, in the order
\* a backtracking matcher tries them (leftmost-first).
RECURSIVE Ways(_, _, _, _)
RECURSIVE Then(_, _, _)
RECURSIVE WaysCat(_, _, _)

\* Every way of ws continued by node.
Then(ws, node, s) ==
    IF ws = <<>> THEN <<>>
    ELSE Ways(node, s, Head(ws).pos, Head(ws).caps) \o Then(Tail(ws), node, s)

WaysCat(ws, subs, s) ==
    IF subs = <<>> THEN ws ELSE WaysCat(Then(ws, Head(subs), s), Tail(subs), s)

\* A greedy operator tries its operand first, a lazy one last.
Prefer(greedy, operand, here) ==
    IF greedy THEN operand \o here ELSE here \o operand

\* The ways that consumed something: an empty iteration is not repeated.
Progress(ws, pos) == SelectSeq(ws, LAMBDA w : w.pos > pos)

\* Group idx spans from pos to where each way of its inside ends.
Capture(idx, pos, ws) ==
    [n \in 1..Len(ws) |->
        Way(ws[n].pos, [ws[n].caps EXCEPT ![idx] = <<pos, ws[n].pos>>])]

Ways(node, s, pos, caps) ==
    LET here == <<Way(pos, caps)>>
        step == IF pos < Len(s) THEN <<Way(pos + 1, caps)>> ELSE <<>>
    IN  CASE node.op = "empty" -> here
          [] node.op = "lit" ->
                IF pos < Len(s) /\ s[pos + 1] = node.c THEN step ELSE <<>>
          [] node.op = "class" ->
                IF pos < Len(s) /\ InClass(node.items, s[pos + 1]) THEN step ELSE <<>>
          [] node.op = "bol" -> IF pos = 0 THEN here ELSE <<>>
          [] node.op = "eol" -> IF pos = Len(s) THEN here ELSE <<>>
          [] node.op = "cat" -> WaysCat(here, node.subs, s)
          [] node.op = "alt" ->
                Ways(node.left, s, pos, caps) \o Ways(node.right, s, pos, caps)
          [] node.op = "quest" ->
                Prefer(node.greedy, Ways(node.sub, s, pos, caps), here)
          [] node.op = "star" ->
                Prefer(node.greedy,
                       Then(Progress(Ways(node.sub, s, pos, caps), pos), node, s),
                       here)
          [] node.op = "plus" ->
                Then(Ways(node.sub, s, pos, caps),
                     Rep("star", node.greedy, node.sub), s)
          [] node.op = "cap" ->
                Capture(node.idx, pos, Ways(node.sub, s, pos, caps))

Unset(re) == [k \in 1..Len(re.names) |-> <<-1, -1>>]

\* The places of s from which re matches.
Starts(re, s) == {p \in 0..Len(s) : Ways(re.node, s, p, Unset(re)) # <<>>}

\* re.MatchString(s): a match anywhere in s.
MatchString(re, s) == Starts(re, s) # {}

\* re.FindStringSubmatch(s): the text of the leftmost match and of each of
\* its groups, "" for a group that took no part; nil without a match.
FindStringSubmatch(re, s) ==
    LET start == CHOOSE p \in Starts(re, s) : \A q \in Starts(re, s) : p <= q
        way == Head(Ways(re.node, s, start, Unset(re)))
    IN  IF Starts(re, s) = {} THEN <<>>
        ELSE <<SubSeq(s, start + 1, way.pos)>> \o
             [k \in 1..Len(re.names) |->
                IF way.caps[k] = <<-1, -1>> THEN <<>>
                ELSE SubSeq(s, way.caps[k][1] + 1, way.caps[k][2])]

\* re.FindStringSubmatchIndex(s), the groups only: where in s each group of
\* the leftmost match lies, <<-1, -1>> for a group that took no part.
FindStringSubmatchIndex(re, s) ==
    LET start == CHOOSE p \in Starts(re, s) : \A q \in Starts(re, s) : p <= q
    IN  IF Starts(re, s) = {} THEN <<>>
        ELSE Head(Ways(re.node, s, start, Unset(re))).caps

\* re.SubexpIndex(name): the index of the leftmost group with this name, -1
\* when there is none or the name is empty (0 is the whole match).
SubexpIndex(re, name) ==
    LET idxs == {k \in 1..Len(re.names) : re.names[k] = name}
    IN  IF name = <<>> \/ idxs = {} THEN -1
        ELSE CHOOSE k \in idxs : \A j \in idxs : k <= j

-----------------------------------------------------------------------------
(***************************************************************************)
(* reflect.Value: the type, the place in the target struct (the indexes of *)
(* the fields leading to it) and the flags that decide CanSet.             *)
(***************************************************************************)
\* reflect.ValueOf(i).Elem() for a non-nil pointer i to a struct of type t.
RootValue(t) ==
    [typ |-> t, path |-> <<>>, addr |-> TRUE, stickyRO |-> FALSE, embedRO |-> FALSE]

\* The zero Value: what Elem gives for a nil pointer or a nil interface.
ZeroValue == [typ |-> "invalid", path |-> <<>>, addr |-> FALSE,
              stickyRO |-> FALSE, embedRO |-> FALSE]

\* v.Field(n): an unexported field is read-only; below a named unexported
\* field everything stays read-only, below an embedded one it does not.
FieldValue(v, n) ==
    LET f == Types[v.typ].fields[n]
    IN  [typ |-> f.typ, path |-> Append(v.path, n), addr |-> v.addr,
         stickyRO |-> v.stickyRO \/ (~IsExported(f.name) /\ ~f.embedded),
         embedRO |-> ~IsExported(f.name) /\ f.embedded]

\* v.CanSet
CanSet(v) == v.addr /\ ~v.stickyRO /\ ~v.embedRO

\* v.CanAddr
CanAddr(v) == v.addr

-----------------------------------------------------------------------------
(***************************************************************************)
(* field.go                                                                *)
(***************************************************************************)
DefaultBoolRegexp == <<"1", "|", "t", "|", "T", "|", "T", "R", "U", "E", "|", "t", "r", "u", "e", "|", "T", "r", "u", "e", "|", "0", "|", "f", "|", "F", "|", "F", "A", "L", "S", "E", "|", "f", "a", "l", "s", "e", "|", "F", "a", "l", "s", "e">>

DefaultIntRegexp == <<"[", "[", ":", "d", "i", "g", "i", "t", ":", "]", "]", "+">>

DefaultStringRegexp == <<"[", "[", ":", "p", "r", "i", "n", "t", ":", "]", "]", "+">>

kindExp(k) ==
    IF k = "bool" THEN DefaultBoolRegexp
    ELSE IF k = "int" THEN DefaultIntRegexp
    ELSE IF k = "string" THEN DefaultStringRegexp
    ELSE <<>>

newField(value, reflectField) ==
    [Value |-> value,
     CaptureGroupName |->
        IF reflectField.tag.name # <<>> THEN reflectField.tag.name
        ELSE reflectField.name,
     Exp |->
        IF reflectField.tag.exp # <<>> THEN reflectField.tag.exp
        ELSE kindExp(Kind(reflectField.typ))]

\* fmt.Sprintf("(?P<%s>%s)", f.CaptureGroupName, f.Exp)
NamedCaptureGroup(f) == <<"(", "?", "P", "<">> \o f.CaptureGroupName \o <<">">> \o f.Exp \o <<")">>

-----------------------------------------------------------------------------
(***************************************************************************)
(* structexp.go                                                            *)
(***************************************************************************)
\* regexpBase without its check of ok: the tag of whatever FieldByNameFunc
\* gave.
regexpBaseUnchecked(t) ==
    [base |-> FieldByNameFunc(t).field.tag.structexp, err |-> Nil]

\* Get the Regexp base from the Regexp field.
regexpBase(t) ==
    LET found == FieldByNameFunc(t)
    IN  IF ~found.ok THEN [base |-> <<>>, err |-> Err("MissingField", "")]
        ELSE [base |-> found.field.tag.structexp, err |-> Nil]

\* The loop of listFields from field n on.
RECURSIVE listFieldsFrom(_, _)
listFieldsFrom(v, n) ==
    LET field == Types[v.typ].fields[n]
        rest == listFieldsFrom(v, n + 1)
    IN  IF n > Len(Types[v.typ].fields) THEN <<>>
        ELSE IF IsStructExp(field.typ) THEN rest
        ELSE IF Kind(field.typ) \in {"bool", "int", "string"} \/ PtrToImplements(field.typ)
        THEN <<newField(FieldValue(v, n), field)>> \o rest
        ELSE IF Kind(field.typ) = "struct"
        THEN listFieldsFrom(FieldValue(v, n), 1) \o rest
        ELSE rest

\* listFields without the recursion into structs.
RECURSIVE listFieldsShallowFrom(_, _)
listFieldsShallowFrom(v, n) ==
    IF n > Len(Types[v.typ].fields) THEN <<>>
    ELSE IF /\ ~IsStructExp(Types[v.typ].fields[n].typ)
            /\ \/ Kind(Types[v.typ].fields[n].typ) \in {"bool", "int", "string"}
               \/ PtrToImplements(Types[v.typ].fields[n].typ)
    THEN <<newField(FieldValue(v, n), Types[v.typ].fields[n])>>
         \o listFieldsShallowFrom(v, n + 1)
    ELSE listFieldsShallowFrom(v, n + 1)

listFieldsShallow(v) == listFieldsShallowFrom(v, 1)

listFields(v) == listFieldsFrom(v, 1)

\* The loop of fillRegexp: each field replaces the first {{name}} left.
RECURSIVE Fill(_, _)
Fill(base, fields) ==
    IF fields = <<>> THEN base
    ELSE Fill(ReplaceFirst(base,
                           <<"{", "{">> \o Head(fields).CaptureGroupName \o <<"}", "}">>,
                           NamedCaptureGroup(Head(fields))),
              Tail(fields))

\* Fill in the regexp string with field expressions.
fillRegexp(base, fields) == Compile(Fill(base, fields))

\* The loop of underlyingValue: Elem of the nil pointers and nil interfaces
\* a struct's fields hold is the zero Value.
underlyingValue(value) ==
    IF Kind(value.typ) \in {"interface", "ptr"} THEN ZeroValue ELSE value

\* The Parse methods of the types that have one: what they leave in the
\* receiver, whose value is cur, and what they return.
ParsableFieldParse(typ, cur, str, bitSize) ==
    LET n == ParseInt(RemoveAll(str, ","), bitSize)
    IN  IF typ = "ParsableBool"
        THEN [err |-> Nil, val |-> IF str = <<"a">> THEN TRUE ELSE cur]
        ELSE IF n.err # Nil THEN [err |-> n.err, val |-> cur]
        ELSE [err |-> Nil, val |-> n.val]

\* What a call of setField did beside returning err: the memory it leaves,
\* whether it called the field's own Parse, and whether it set the value
\* itself (SetBool, SetInt, SetString).
Outcome(err, m, parsable, set) ==
    [err |-> err, mem |-> m, parsable |-> parsable, set |-> set]

\* setField without the call of the field's own Parse.
setFieldUnparsed(val, str, m, bitSize) ==
    LET underVal == underlyingValue(val)
        b == ParseBool(str)
        n == ParseInt(str, bitSize)
    IN  IF ~CanSet(underVal) THEN Outcome(Err("InvalidType", val.typ), m, FALSE, FALSE)
        ELSE IF Kind(underVal.typ) = "bool"
        THEN IF b.err # Nil THEN Outcome(b.err, m, FALSE, FALSE)
             ELSE Outcome(Nil, [m EXCEPT ![underVal.path] = b.val], FALSE, TRUE)
        ELSE IF Kind(underVal.typ) = "int"
        THEN IF n.err # Nil THEN Outcome(n.err, m, FALSE, FALSE)
             ELSE Outcome(Nil, [m EXCEPT ![underVal.path] = n.val], FALSE, TRUE)
        ELSE IF Kind(underVal.typ) = "string"
        THEN Outcome(Nil, [m EXCEPT ![underVal.path] = str], FALSE, TRUE)
        ELSE Outcome(Nil, m, FALSE, FALSE)

\* setField without SetString.
setFieldNoString(val, str, m, bitSize) ==
    LET underVal == underlyingValue(val)
        own == ParsableFieldParse(underVal.typ, m[underVal.path], str, bitSize)
        b == ParseBool(str)
        n == ParseInt(str, bitSize)
    IN  IF ~CanSet(underVal) THEN Outcome(Err("InvalidType", val.typ), m, FALSE, FALSE)
        ELSE IF CanAddr(underVal) /\ PtrToImplements(underVal.typ)
        THEN Outcome(own.err, [m EXCEPT ![underVal.path] = own.val], TRUE, FALSE)
        ELSE IF Kind(underVal.typ) = "bool"
        THEN IF b.err # Nil THEN Outcome(b.err, m, FALSE, FALSE)
             ELSE Outcome(Nil, [m EXCEPT ![underVal.path] = b.val], FALSE, TRUE)
        ELSE IF Kind(underVal.typ) = "int"
        THEN IF n.err # Nil THEN Outcome(n.err, m, FALSE, FALSE)
             ELSE Outcome(Nil, [m EXCEPT ![underVal.path] = n.val], FALSE, TRUE)
        ELSE Outcome(Nil, m, FALSE, FALSE)

setField(val, str, m, bitSize) ==
    LET underVal == underlyingValue(val)
        own == ParsableFieldParse(underVal.typ, m[underVal.path], str, bitSize)
        b == ParseBool(str)
        n == ParseInt(str, bitSize)
    IN  IF ~CanSet(underVal) THEN Outcome(Err("InvalidType", val.typ), m, FALSE, FALSE)
        ELSE IF CanAddr(underVal) /\ PtrToImplements(underVal.typ)
        THEN Outcome(own.err, [m EXCEPT ![underVal.path] = own.val], TRUE, FALSE)
        ELSE IF Kind(underVal.typ) = "bool"
        THEN IF b.err # Nil THEN Outcome(b.err, m, FALSE, FALSE)
             ELSE Outcome(Nil, [m EXCEPT ![underVal.path] = b.val], FALSE, TRUE)
        ELSE IF Kind(underVal.typ) = "int"
        THEN IF n.err # Nil THEN Outcome(n.err, m, FALSE, FALSE)
             ELSE Outcome(Nil, [m EXCEPT ![underVal.path] = n.val], FALSE, TRUE)
        ELSE IF Kind(underVal.typ) = "string"
        THEN Outcome(Nil, [m EXCEPT ![underVal.path] = str], FALSE, TRUE)
        ELSE Outcome(Nil, m, FALSE, FALSE)

-----------------------------------------------------------------------------
(***************************************************************************)
(* The targets and texts Parse is called with                              *)
(***************************************************************************)
StructTypes == DOMAIN TestTypes \cup DOMAIN ExampleTypes \cup DOMAIN CallerTypes

\* The second argument of Parse: the nil interface, a value, or a pointer
\* (nil or not) to a value of type typ.
Target(form, typ, isNil) == [form |-> form, typ |-> typ, isNil |-> isNil]

Targets ==
    {Target("nil", "invalid", TRUE)}
    \cup {Target("value", t, FALSE) : t \in {"bool", "int", "string", "Bool"}}
    \cup {Target("ptr", t, FALSE) : t \in {"int", "string", "*Bool"} \cup StructTypes}
    \cup {Target("ptr", t, TRUE) : t \in {"Bool", "MissingFieldStruct"}}

Alphabet == {"1", "a", "-"}

ExtraInputs ==
    {<<"t", "r", "u", "e">>, <<"m", "a", "y", "b", "e">>, <<"b">>, <<"c">>, <<"1", "0", "0">>, <<"s", "t", "r", "i", "n", "g">>,
     <<"1", "-", "2", "3", "4", "-", "5", "6", "7", "-", "8", "9", "0", "0">>, <<"1", "-", "9", "9", "9", "9", "9", "9", "9", "9", "9", "9", "9", "9", "9", "9", "9", "9", "9", "9", "9", "9", "-", "5", "6", "7", "-", "8", "9", "0", "0">>,
     <<"2", "1", "4", "7", "4", "8", "3", "6", "4", "8">>, <<"1", "-", "1">>, <<"1", "-", "a">>, <<"1", "-", "1", "-", "1">>, <<"1", "-", "a", "-", "1">>, <<"1", "-", ",", "-", "1">>, <<"1", "-", "1", ",", "1", "-", "1">>, <<"1", "-", "{", "{", "P", "}", "}">>}

Inputs == UNION {[1..n -> Alphabet] : n \in 0..MaxLen} \cup ExtraInputs

\* The places of the values a value of type t holds: one for every field
\* that is no struct, at every depth.
RECURSIVE Slots(_)
Slots(t) ==
    IF Kind(t) # "struct" THEN {<<>>}
    ELSE UNION {{<<n>> \o p : p \in Slots(Types[t].fields[n].typ)} :
                   n \in 1..Len(Types[t].fields)}

RECURSIVE TypeAt(_, _)
TypeAt(t, path) ==
    IF path = <<>> THEN t ELSE TypeAt(Types[t].fields[Head(path)].typ, Tail(path))

\* The zero value of a type, and the value a caller has put there before the
\* call.  Pointers and interfaces stay nil, the kinds Parse never reads or
\* writes stay zero.
ZeroOf(t) ==
    IF Kind(t) = "bool" THEN FALSE
    ELSE IF Kind(t) = "int" THEN Zero
    ELSE IF Kind(t) = "string" THEN <<>>
    ELSE "zero"

FilledOf(t) ==
    IF Kind(t) = "bool" THEN TRUE
    ELSE IF Kind(t) = "int" THEN IntVal(FALSE, <<"7">>)
    ELSE IF Kind(t) = "string" THEN <<"z", "z">>
    ELSE "zero"

\* The memory behind a target: nothing behind a nil.
InitMem(target, filled) ==
    IF target.isNil THEN [p \in {} |-> "zero"]
    ELSE [p \in Slots(target.typ) |->
            IF filled THEN FilledOf(TypeAt(target.typ, p))
            ELSE ZeroOf(TypeAt(target.typ, p))]

-----------------------------------------------------------------------------
(***************************************************************************)
(* One call of Parse, step by step                                         *)
(***************************************************************************)
VARIABLES
    pc,       \* where the call is: "idle", the step to take next, or "done"
    intSize,  \* the bits of int on this build: 32 or 64
    i,        \* the target
    s,        \* the text
    mem,      \* the values behind the target
    mem0,     \* mem when Parse was called
    base,     \* the template
    fields,   \* the descriptors
    regxp,    \* the compiled expression
    matches,  \* FindStringSubmatch's result
    k,        \* the index of the loop over fields
    err,      \* what Parse returned; a panic when it did not return
    trace,    \* the steps of this call so far
    applied   \* the calls of setField so far: field index, text and outcome

vars == <<pc, intSize, i, s, mem, mem0, base, fields, regxp, matches, k, err,
          trace, applied>>

Init ==
    /\ pc = "idle"
    /\ intSize \in {32, 64}
    /\ i = Target("nil", "invalid", TRUE)
    /\ s = <<>>
    /\ mem = InitMem(i, FALSE)
    /\ mem0 = mem
    /\ base = <<>>
    /\ fields = <<>>
    /\ regxp = NoRegexp
    /\ matches = <<>>
    /\ k = 0
    /\ err = Nil
    /\ trace = <<>>
    /\ applied = <<>>

\* The call ends with e.
Finish(e) ==
    /\ pc' = "done"
    /\ err' = e

\* The caller calls Parse(text, target); the target's values are zero or
\* what the caller has put there.
Call ==
    /\ pc = "idle"
    /\ \E target \in Targets, text \in Inputs, filled \in BOOLEAN :
          /\ filled => target.form = "ptr" /\ Kind(target.typ) = "struct" /\ ~target.isNil
          /\ i' = target
          /\ s' = text
          /\ mem' = InitMem(target, filled)
          /\ mem0' = mem'
    /\ pc' = "TypeCheck"
    /\ UNCHANGED <<intSize, base, fields, regxp, matches, k, err, trace, applied>>

\* Verify interface is a pointer to a structure.  reflect.TypeOf(nil) is
\* the nil Type, and its Kind method cannot be called.
TypeCheck ==
    /\ pc = "TypeCheck"
    /\ trace' = Append(trace, "TypeCheck")
    /\ IF i.form = "nil" THEN Finish(Panic("nil pointer dereference"))
       ELSE IF i.form # "ptr" THEN Finish(Err("NotStruct", Kind(i.typ)))
       ELSE IF Kind(i.typ) # "struct" THEN Finish(Err("NotStruct", Kind(i.typ)))
       ELSE pc' = "RegexpBase" /\ err' = err
    /\ UNCHANGED <<intSize, i, s, mem, mem0, base, fields, regxp, matches, k, applied>>

RegexpBase ==
    /\ pc = "RegexpBase"
    /\ trace' = Append(trace, "RegexpBase")
    /\ LET r == regexpBase(i.typ)
       IN  IF r.err # Nil THEN Finish(r.err) /\ base' = base
           ELSE pc' = "ListFields" /\ base' = r.base /\ err' = err
    /\ UNCHANGED <<intSize, i, s, mem, mem0, fields, regxp, matches, k, applied>>

\* reflect.ValueOf(i).Elem() of a nil pointer is the zero Value, whose Type
\* method panics.
ListFields ==
    /\ pc = "ListFields"
    /\ trace' = Append(trace, "ListFields")
    /\ IF i.isNil
       THEN Finish(Panic("call of reflect.Value.Type on zero Value")) /\ fields' = fields
       ELSE pc' = "FillRegexp" /\ fields' = listFields(RootValue(i.typ)) /\ err' = err
    /\ UNCHANGED <<intSize, i, s, mem, mem0, base, regxp, matches, k, applied>>

FillRegexp ==
    /\ pc = "FillRegexp"
    /\ trace' = Append(trace, "FillRegexp")
    /\ LET r == fillRegexp(base, fields)
       IN  IF r.err # Nil THEN Finish(r.err) /\ regxp' = regxp
           ELSE pc' = "Match" /\ regxp' = r.re /\ err' = err
    /\ UNCHANGED <<intSize, i, s, mem, mem0, base, fields, matches, k, applied>>

\* Match without the NoMatch error: a text that does not match ends the call
\* with nil.
MatchUnchecked ==
    /\ pc = "Match"
    /\ trace' = Append(trace, "Match")
    /\ IF ~MatchString(regxp, s)
       THEN Finish(Nil) /\ UNCHANGED <<matches, k>>
       ELSE /\ matches' = FindStringSubmatch(regxp, s)
            /\ k' = 1
            /\ pc' = "SetFields"
            /\ err' = err
    /\ UNCHANGED <<intSize, i, s, mem, mem0, base, fields, regxp, applied>>

Match ==
    /\ pc = "Match"
    /\ trace' = Append(trace, "Match")
    /\ IF ~MatchString(regxp, s)
       THEN Finish(Err("NoMatch", "")) /\ UNCHANGED <<matches, k>>
       ELSE /\ matches' = FindStringSubmatch(regxp, s)
            /\ k' = 1
            /\ pc' = "SetFields"
            /\ err' = err
    /\ UNCHANGED <<intSize, i, s, mem, mem0, base, fields, regxp, applied>>

\* The loop iteration without its return of setField's error: the loop goes
\* on to the next field.
SetFieldStepContinues ==
    /\ pc = "SetFields"
    /\ k <= Len(fields)
    /\ LET field == fields[k]
           idx == SubexpIndex(regxp, field.CaptureGroupName)
           r == setField(field.Value, matches[idx + 1], mem, intSize)
       IN  IF idx = -1
           THEN UNCHANGED <<mem, applied>>
           ELSE /\ mem' = r.mem
                /\ applied' = Append(applied,
                        [field |-> k, str |-> matches[idx + 1], err |-> r.err,
                         parsable |-> r.parsable, set |-> r.set])
    /\ k' = k + 1
    /\ UNCHANGED <<pc, err, intSize, i, s, mem0, base, fields, regxp, matches, trace>>

\* One iteration of the loop over fields.
SetFieldStep ==
    /\ pc = "SetFields"
    /\ k <= Len(fields)
    /\ LET field == fields[k]
           idx == SubexpIndex(regxp, field.CaptureGroupName)
           r == setField(field.Value, matches[idx + 1], mem, intSize)
       IN  IF idx = -1
           THEN /\ k' = k + 1
                /\ UNCHANGED <<pc, err, mem, applied>>
           ELSE /\ mem' = r.mem
                /\ applied' = Append(applied,
                        [field |-> k, str |-> matches[idx + 1], err |-> r.err,
                         parsable |-> r.parsable, set |-> r.set])
                /\ IF r.err # Nil THEN Finish(r.err) /\ k' = k
                   ELSE k' = k + 1 /\ UNCHANGED <<pc, err>>
    /\ UNCHANGED <<intSize, i, s, mem0, base, fields, regxp, matches, trace>>

\* Every field is done: return nil.
Return ==
    /\ pc = "SetFields"
    /\ k > Len(fields)
    /\ Finish(Nil)
    /\ UNCHANGED <<intSize, i, s, mem, mem0, base, fields, regxp, matches, k,
                   trace, applied>>

\* The descriptors and the expression do not outlive the call.
Discard ==
    /\ pc = "done"
    /\ pc' = "idle"
    /\ i' = Target("nil", "invalid", TRUE)
    /\ s' = <<>>
    /\ mem' = InitMem(i', FALSE)
    /\ mem0' = mem'
    /\ base' = <<>>
    /\ fields' = <<>>
    /\ regxp' = NoRegexp
    /\ matches' = <<>>
    /\ k' = 0
    /\ err' = Nil
    /\ trace' = <<>>
    /\ applied' = <<>>
    /\ UNCHANGED intSize

Next ==
    \/ Call
    \/ TypeCheck
    \/ RegexpBase
    \/ ListFields
    \/ FillRegexp
    \/ Match
    \/ SetFieldStep
    \/ Return
    \/ Discard

Spec == Init /\ [][Next]_vars

-----------------------------------------------------------------------------
(***************************************************************************)
(* Parse from line 83 on, as one function of the struct type, the text and *)
(* the values behind a non-nil pointer: what it returns and what it leaves *)
(***************************************************************************)
RECURSIVE ApplyFrom(_, _, _, _, _)

\* The loop over fields after one call r of setField.
ApplyRest(r, fs, re, ms, bitSize) ==
    IF r.err # Nil THEN [err |-> r.err, mem |-> r.mem]
    ELSE ApplyFrom(Tail(fs), re, ms, r.mem, bitSize)

ApplyFrom(fs, re, ms, m, bitSize) ==
    IF fs = <<>> THEN [err |-> Nil, mem |-> m]
    ELSE IF SubexpIndex(re, Head(fs).CaptureGroupName) = -1
    THEN ApplyFrom(Tail(fs), re, ms, m, bitSize)
    ELSE ApplyRest(setField(Head(fs).Value,
                            ms[SubexpIndex(re, Head(fs).CaptureGroupName) + 1],
                            m, bitSize),
                   fs, re, ms, bitSize)

\* Parse from the match on.
MatchAndApply(compiled, fs, text, m, bitSize) ==
    IF compiled.err # Nil THEN [err |-> compiled.err, mem |-> m]
    ELSE IF ~MatchString(compiled.re, text) THEN [err |-> Err("NoMatch", ""), mem |-> m]
    ELSE ApplyFrom(fs, compiled.re, FindStringSubmatch(compiled.re, text), m, bitSize)

ParseStruct(t, text, m, bitSize) ==
    IF regexpBase(t).err # Nil THEN [err |-> regexpBase(t).err, mem |-> m]
    ELSE MatchAndApply(fillRegexp(regexpBase(t).base, listFields(RootValue(t))),
                       listFields(RootValue(t)), text, m, bitSize)


-----------------------------------------------------------------------------
(***************************************************************************)
(* What the properties below speak of                                      *)
(***************************************************************************)
\* The call is over.
Done == pc = "done"

\* The target is a non-nil pointer to a struct.
OnRecord == i.form = "ptr" /\ ~i.isNil /\ Kind(i.typ) = "struct"

\* The call is over and the text matched the expression.
Matched == Done /\ OnRecord /\ Len(trace) = 5 /\ matches # <<>>

\* The place of a descriptor's value, whether its group is in the
\* expression, and the text FindStringSubmatch gave for it.
Slot(f) == f.Value.path

InExpr(f) == SubexpIndex(regxp, f.CaptureGroupName) # -1

Captured(f) == matches[SubexpIndex(regxp, f.CaptureGroupName) + 1]

\* The place of the struct that declares a descriptor's field.
Holder(f) == SubSeq(f.Value.path, 1, Len(f.Value.path) - 1)

\* The group of a descriptor took part in the match.
Participated(f) ==
    /\ InExpr(f)
    /\ FindStringSubmatchIndex(regxp, s)[SubexpIndex(regxp, f.CaptureGroupName)]
          # <<-1, -1>>

\* The conversion of a text for a field of type typ that holds cur: the
\* type's own Parse if the pointer to it has one, else by kind.
Conversion(typ, cur, str) ==
    IF PtrToImplements(typ) THEN ParsableFieldParse(typ, cur, str, intSize)
    ELSE IF Kind(typ) = "bool" THEN ParseBool(str)
    ELSE IF Kind(typ) = "int" THEN ParseInt(str, intSize)
    ELSE [err |-> Nil, val |-> str]

Converts(f) == Conversion(f.Value.typ, mem0[Slot(f)], Captured(f)).err = Nil

Converted(f) == Conversion(f.Value.typ, mem0[Slot(f)], Captured(f)).val

\* A marker field is declared in t or promoted from an embedded struct, and
\* how many there are.
RECURSIVE MarkerCount(_)
RECURSIVE MarkersFrom(_)
MarkersFrom(fs) ==
    IF fs = <<>> THEN 0
    ELSE (IF IsStructExp(Head(fs).typ) THEN 1
          ELSE IF Head(fs).embedded /\ Kind(Head(fs).typ) = "struct"
          THEN MarkerCount(Head(fs).typ)
          ELSE 0)
         + MarkersFrom(Tail(fs))

MarkerCount(t) == MarkersFrom(Types[t].fields)

\* The names between {{ and }} in a template.
RECURSIVE PlaceholderNames(_)
PlaceholderAfter(rest) ==
    IF Index(rest, <<"}", "}">>) = 0 THEN {}
    ELSE {SubSeq(rest, 1, Index(rest, <<"}", "}">>) - 1)}
         \cup PlaceholderNames(SubSeq(rest, Index(rest, <<"}", "}">>) + 2, Len(rest)))

PlaceholderNames(tpl) ==
    IF Index(tpl, <<"{", "{">>) = 0 THEN {}
    ELSE PlaceholderAfter(SubSeq(tpl, Index(tpl, <<"{", "{">>) + 2, Len(tpl)))

\* Every placeholder of the template is the name of exactly one descriptor.
PlaceholdersBound ==
    \A nm \in PlaceholderNames(base) :
        Cardinality({f \in 1..Len(fields) : fields[f].CaptureGroupName = nm}) = 1

-----------------------------------------------------------------------------
(***************************************************************************)
(* Properties                                                              *)
(***************************************************************************)
\* C3: Parse of a pointer to a struct type without a marker field, declared
\* or promoted, returns MissingField for every text; it has then taken the
\* type check and the search for the marker only (no field is listed, no
\* expression compiled, no match tried) and the struct's values are those it
\* was called with.
C3_MissingFieldFirst ==
    (Done /\ i.form = "ptr" /\ Kind(i.typ) = "struct" /\ MarkerCount(i.typ) = 0)
    => /\ err = Err("MissingField", "")
       /\ trace = <<"TypeCheck", "RegexpBase">>
       /\ fields = <<>> /\ regxp = NoRegexp /\ matches = <<>> /\ applied = <<>>
       /\ mem = mem0

\* Parse of a prefilled MissingFieldStruct has returned MissingField.
C3_Witness ==
    /\ Done /\ OnRecord /\ i.typ = "MissingFieldStruct" /\ s = <<"s", "t", "r", "i", "n", "g">>
    /\ mem0[<<1>>] = <<"z", "z">>
    /\ err.type = "MissingField"

\* C4: when the expression compiled and the text does not match it, Parse
\* returns NoMatch, has called setField for no field, and every value of the
\* struct is the one it was called with; a bool field with the default
\* pattern and the text maybe gives NoMatch.
C4_NoMatchWritesNothing ==
    /\ (Done /\ OnRecord /\ Len(trace) = 5 /\ ~MatchString(regxp, s))
       => (err = Err("NoMatch", "") /\ applied = <<>> /\ mem = mem0)
    /\ (Done /\ OnRecord /\ i.typ = "Bool" /\ s = <<"m", "a", "y", "b", "e">>)
       => err = Err("NoMatch", "")

\* Parse of a prefilled Bool with the text maybe has returned NoMatch.
C4_Witness ==
    /\ Done /\ OnRecord /\ i.typ = "Bool" /\ s = <<"m", "a", "y", "b", "e">>
    /\ mem0[<<2>>] = TRUE /\ mem = mem0
    /\ err.type = "NoMatch"

\* C2 (as the specification states it): for a target that is no pointer to
\* a struct -- a value, a pointer to something else, nil -- Parse returns
\* NotStruct with the kind of the target (for a pointer: of the pointer or
\* of what it points to) and leaves the target as it was.
C2_NotStructForAnyOther ==
    (Done /\ ~(i.form = "ptr" /\ Kind(i.typ) = "struct"))
    => /\ err.type = "NotStruct"
       /\ err.detail \in
            (IF i.form = "nil" THEN {"invalid"}
             ELSE IF i.form = "ptr" THEN {"ptr", Kind(i.typ)}
             ELSE {Kind(i.typ)})
       /\ mem = mem0

\* C7 (as the specification states it): when two descriptors of one struct
\* have the same capture-group name, Parse never returns nil with a field
\* bound from a capture, whatever the template and the text: it returns the
\* error of the duplicate.
C7_DuplicateNameRejected ==
    (Done /\ OnRecord /\ MarkerCount(i.typ) = 1
          /\ \E f, g \in 1..Len(listFields(RootValue(i.typ))) :
                /\ f # g
                /\ Holder(listFields(RootValue(i.typ))[f]) =
                   Holder(listFields(RootValue(i.typ))[g])
                /\ listFields(RootValue(i.typ))[f].CaptureGroupName =
                   listFields(RootValue(i.typ))[g].CaptureGroupName)
    => ~(err = Nil /\ applied # <<>>)

\* C8 (as the specification states it): after a match, a descriptor whose
\* group took no part in it -- the group is not in the expression, or it
\* lies in an optional part or an alternative not taken -- keeps the value
\* it had, setField is not called for it, and Parse returns no error of it.
C8_NonParticipantUntouched ==
    Matched =>
        \A f \in 1..Len(fields) :
            ~Participated(fields[f]) =>
                /\ mem[Slot(fields[f])] = mem0[Slot(fields[f])]
                /\ \A j \in 1..Len(applied) : applied[j].field # f

\* The descriptors of C10: of every field that is not the marker, one whose
\* kind is bool, int or string, or whose type or the pointer to it has the
\* Parse method, gets a descriptor; another struct is descended into; the
\* rest is skipped.
RECURSIVE EligibleFrom(_, _)
EligibleFrom(v, n) ==
    IF n > Len(Types[v.typ].fields) THEN <<>>
    ELSE (IF IsStructExp(Types[v.typ].fields[n].typ) THEN <<>>
          ELSE IF \/ Kind(Types[v.typ].fields[n].typ) \in {"bool", "int", "string"}
                  \/ Types[Types[v.typ].fields[n].typ].impl
                  \/ Types[Types[v.typ].fields[n].typ].ptrImpl
          THEN <<[Value |-> FieldValue(v, n),
                  CaptureGroupName |->
                     IF Types[v.typ].fields[n].tag.name # <<>>
                     THEN Types[v.typ].fields[n].tag.name
                     ELSE Types[v.typ].fields[n].name,
                  Exp |->
                     IF Types[v.typ].fields[n].tag.exp # <<>>
                     THEN Types[v.typ].fields[n].tag.exp
                     ELSE kindExp(Kind(Types[v.typ].fields[n].typ))]>>
          ELSE IF Kind(Types[v.typ].fields[n].typ) = "struct"
          THEN EligibleFrom(FieldValue(v, n), 1)
          ELSE <<>>)
         \o EligibleFrom(v, n + 1)

\* C10 (as the specification states it): listFields gives exactly these
\* descriptors, in this order.
C10_EnumeratesEligible ==
    (OnRecord /\ Len(trace) >= 3) => fields = EligibleFrom(RootValue(i.typ), 1)

\* C9: when a call of setField returns an error -- the field cannot be set
\* or its text does not convert -- it is the last call of this Parse, and
\* Parse returns its error.  setField was called in the order of the
\* descriptors, for every descriptor up to the failing one whose group is
\* in the expression and for no other.  Every field before the failing one
\* holds the conversion of its text; the failing field and every field
\* after it hold the values Parse was called with.
C9_StopsAtFirstFailure ==
    (Done /\ OnRecord /\ \E j \in 1..Len(applied) : applied[j].err # Nil)
    => /\ \A j \in 1..(Len(applied) - 1) :
            /\ applied[j].err = Nil
            /\ applied[j].field < applied[j + 1].field
            /\ applied[j].str = Captured(fields[applied[j].field])
            /\ mem[Slot(fields[applied[j].field])] = Converted(fields[applied[j].field])
       /\ err = applied[Len(applied)].err
       /\ err.type \in {"InvalidType", "NumError"}
       /\ {applied[j].field : j \in 1..Len(applied)} =
            {f \in 1..applied[Len(applied)].field : InExpr(fields[f])}
       /\ \A f \in applied[Len(applied)].field..Len(fields) :
            mem[Slot(fields[f])] = mem0[Slot(fields[f])]

\* Parse of a prefilled PhoneNumber with an area code no int holds: the
\* country code is set, the rest is what it was.
C9_Witness ==
    /\ Done /\ OnRecord /\ i.typ = "PhoneNumber"
    /\ s = <<"1", "-", "9", "9", "9", "9", "9", "9", "9", "9", "9", "9", "9", "9", "9", "9", "9", "9", "9", "9", "9", "9", "-", "5", "6", "7", "-", "8", "9", "0", "0">>
    /\ err = Err("NumError", "ParseInt: value out of range")
    /\ Len(applied) = 2
    /\ mem[<<2>>] = IntVal(FALSE, <<"1">>)
    /\ mem[<<3>>] = IntVal(FALSE, <<"7">>)
    /\ mem[<<4>>] = IntVal(FALSE, <<"7">>)
    /\ mem[<<5>>] = IntVal(FALSE, <<"7">>)

\* C6 (as the specification states it): for every descriptor of a type
\* whose pointer has the Parse method and whose group matched, Parse calls
\* that method with the matched text, and returns its error if it has one.
C6_ExtensionAlwaysInvoked ==
    Matched =>
        \A f \in 1..Len(fields) :
            (PtrToImplements(fields[f].Value.typ) /\ Participated(fields[f]))
            => \E j \in 1..Len(applied) :
                  /\ applied[j].field = f
                  /\ applied[j].parsable
                  /\ applied[j].str = Captured(fields[f])
                  /\ applied[j].err # Nil => err = applied[j].err

\* C6: for every descriptor of a type whose pointer has the Parse method,
\* whose group matched, whose field can be set and before which no field
\* failed, Parse calls that method with exactly the matched text and not
\* the conversion of the field's kind, and sets nothing itself: the field
\* holds what the method left, and Parse returns the method's error if it
\* has one.  With the pattern a|b and a method that sets true for a only: a
\* gives true, b leaves false without an error, c gives NoMatch.
C6_ExtensionInvokedWhenReached ==
    /\ Matched =>
        \A f \in 1..Len(fields) :
            (/\ PtrToImplements(fields[f].Value.typ)
             /\ Participated(fields[f])
             /\ CanSet(fields[f].Value)
             /\ \A j \in 1..Len(applied) :
                    applied[j].field < f => applied[j].err = Nil)
            => \E j \in 1..Len(applied) :
                  /\ applied[j].field = f
                  /\ applied[j].parsable /\ ~applied[j].set
                  /\ applied[j].str = Captured(fields[f])
                  /\ applied[j].err =
                       ParsableFieldParse(fields[f].Value.typ, mem0[Slot(fields[f])],
                                          Captured(fields[f]), intSize).err
                  /\ mem[Slot(fields[f])] =
                       ParsableFieldParse(fields[f].Value.typ, mem0[Slot(fields[f])],
                                          Captured(fields[f]), intSize).val
                  /\ applied[j].err # Nil => err = applied[j].err
    /\ (Done /\ OnRecord /\ i.typ = "ParsableStruct" /\ mem0[<<2>>] = FALSE)
       => /\ s = <<"a">> => err = Nil /\ mem[<<2>>] = TRUE
          /\ s = <<"b">> => err = Nil /\ mem[<<2>>] = FALSE
          /\ s = <<"c">> => err = Err("NoMatch", "")

\* Parse of an Amount whose CommaInt gets a lone comma: its Parse method was
\* called, failed, and Parse returned that error.
C6_Witness ==
    /\ Done /\ OnRecord /\ i.typ = "Amount" /\ s = <<"1", "-", ",", "-", "1">>
    /\ Len(applied) = 2
    /\ applied[2].parsable /\ applied[2].str = <<",">>
    /\ err = Err("NumError", "ParseInt: invalid syntax")

\* The fields of the struct that declares, in place of every field that
\* nests a struct, the fields of that struct.
RECURSIVE FlatFields(_)
RECURSIVE FlatFrom(_)
FlatFrom(fs) ==
    IF fs = <<>> THEN <<>>
    ELSE (IF Kind(Head(fs).typ) = "struct" /\ ~IsStructExp(Head(fs).typ)
          THEN FlatFields(Head(fs).typ)
          ELSE <<Head(fs)>>)
         \o FlatFrom(Tail(fs))

FlatFields(t) == FlatFrom(Types[t].fields)

\* The values of a list of descriptors, in its order.
ValuesOf(m, fs) == [f \in 1..Len(fs) |-> m[fs[f].Value.path]]

\* The field of t that nests a struct can be set through: it is exported or
\* embedded.
NestingSettable(t) ==
    \A n \in 1..Len(Types[t].fields) :
        (Kind(Types[t].fields[n].typ) = "struct" /\ ~IsStructExp(Types[t].fields[n].typ))
        => (IsExported(Types[t].fields[n].name) \/ Types[t].fields[n].embedded)

\* What Parse gives for the flat counterpart of the target's type, called
\* with the same text and with values as the target's.
FlatRun ==
    ParseStruct(FlatOf(i.typ), s,
                InitMem(Target("ptr", FlatOf(i.typ), FALSE),
                        mem0 = InitMem(i, TRUE)),
                intSize)

\* C5 (as the specification states it): Parse of a struct that nests a
\* struct returns what Parse of its flat counterpart returns, and leaves the
\* same values in the fields.
C5_NestedAsFlat ==
    (Done /\ OnRecord /\ i.typ \in NestingTypes)
    => /\ Types[FlatOf(i.typ)].fields = FlatFields(i.typ)
       /\ err = FlatRun.err
       /\ ValuesOf(mem, listFields(RootValue(i.typ))) =
            ValuesOf(FlatRun.mem, listFields(RootValue(FlatOf(i.typ))))

\* C5: the fields of a nested struct, named or embedded, get descriptors
\* under their own capture-group names, in the place of the nesting field;
\* when the nesting field is exported or embedded, Parse returns what Parse
\* of the flat counterpart returns and leaves the same values in the
\* fields.
C5_NestedAsFlatWhenSettable ==
    (Done /\ OnRecord /\ i.typ \in NestingTypes)
    => /\ Types[FlatOf(i.typ)].fields = FlatFields(i.typ)
       /\ Len(trace) >= 3 =>
            [f \in 1..Len(fields) |-> <<fields[f].CaptureGroupName, fields[f].Exp>>]
            = [f \in 1..Len(listFields(RootValue(FlatOf(i.typ)))) |->
                 <<listFields(RootValue(FlatOf(i.typ)))[f].CaptureGroupName,
                   listFields(RootValue(FlatOf(i.typ)))[f].Exp>>]
       /\ NestingSettable(i.typ) =>
            /\ err = FlatRun.err
            /\ ValuesOf(mem, listFields(RootValue(i.typ))) =
                 ValuesOf(FlatRun.mem, listFields(RootValue(FlatOf(i.typ))))

\* Parse of a ParentMixed has set the string of its nested struct between
\* its own int and bool.
C5_Witness ==
    /\ Done /\ OnRecord /\ i.typ = "ParentMixed" /\ s = <<"1", "-", "a", "-", "1">>
    /\ err = Nil
    /\ mem[<<2>>] = IntVal(FALSE, <<"1">>)
    /\ mem[<<3, 1>>] = <<"a">>
    /\ mem[<<4>>] = TRUE

\* C1 (as the specification states it): when the struct has a marker, every
\* placeholder of its template is the name of one descriptor and the text
\* matches the expression (every group taking part), Parse returns nil and
\* every field holds the conversion of the text of its group.
C1_MatchAlwaysSucceeds ==
    (Matched /\ PlaceholdersBound /\ \A f \in 1..Len(fields) : Participated(fields[f]))
    => /\ err = Nil
       /\ \A f \in 1..Len(fields) : mem[Slot(fields[f])] = Converted(fields[f])

\* C1: when the struct has a marker, every placeholder of its template is
\* the name of one descriptor and the text matches the expression, Parse
\* returns nil exactly if every field whose group is in the expression can
\* be set and the text of its group converts (a bool literal, a base-10
\* number an int holds, any string, a text the type's own Parse accepts);
\* every such field then holds that conversion.  Otherwise Parse returns
\* InvalidType or the conversion's error.  The template
\* {{cc}}-{{ac}}-{{p}}-{{ln}} with four int fields and the text
\* 1-234-567-8900 gives 1, 234, 567, 8900.
C1_MatchSucceedsIfConvertible ==
    /\ (Matched /\ PlaceholdersBound)
       => /\ err = Nil <=>
               \A f \in 1..Len(fields) :
                  InExpr(fields[f]) => (CanSet(fields[f].Value) /\ Converts(fields[f]))
          /\ err = Nil =>
               \A f \in 1..Len(fields) :
                  InExpr(fields[f]) => mem[Slot(fields[f])] = Converted(fields[f])
          /\ err.type \in {"nil", "InvalidType", "NumError"}
    /\ (Done /\ OnRecord /\ i.typ = "PhoneNumber" /\ s = <<"1", "-", "2", "3", "4", "-", "5", "6", "7", "-", "8", "9", "0", "0">>)
       => /\ err = Nil
          /\ ValuesOf(mem, fields) =
               <<IntVal(FALSE, <<"1">>), IntVal(FALSE, <<"2", "3", "4">>),
                 IntVal(FALSE, <<"5", "6", "7">>), IntVal(FALSE, <<"8", "9", "0", "0">>)>>

\* Parse of a PhoneNumber with the text 1-234-567-8900 has returned nil.
C1_Witness ==
    /\ Done /\ OnRecord /\ i.typ = "PhoneNumber" /\ s = <<"1", "-", "2", "3", "4", "-", "5", "6", "7", "-", "8", "9", "0", "0">>
    /\ err = Nil
    /\ mem[<<2>>] = IntVal(FALSE, <<"1">>)
    /\ mem[<<5>>] = IntVal(FALSE, <<"8", "9", "0", "0">>)

\* The steps of a call give what Parse as one function gives.
StepsAreParse ==
    (Done /\ OnRecord)
    => (err = ParseStruct(i.typ, s, mem0, intSize).err
        /\ mem = ParseStruct(i.typ, s, mem0, intSize).mem)
=============================================================================
